---- MODULE Spec2Model ----
(***************************************************************************)
(* Location CRUD handlers of evecs-db/shared_code/location_crud.py over a  *)
(* document store: create_location, delete_location, get_location and      *)
(* edit_location.                                                          *)
(*                                                                         *)
(* Encoding of the Python values:                                          *)
(*  - a dict is a record with a field `keys` (the keys it holds) and one   *)
(*    field per possible key; `k in d` is `k \in d.keys`, and the field of *)
(*    an absent key holds a default that is never read;                    *)
(*  - identifier strings (uuid4 results, location_id, room_id) are         *)
(*    naturals >= 1 and the empty string is 0, so `not location_id` is     *)
(*    `location_id = 0` for a present key;                                 *)
(*  - a JSON value that may be ill-typed carries a tag `t`.                *)
(*                                                                         *)
(* The container behind the store proxy is the set of its documents; the   *)
(* proxy's calls complete, and replace_item raises only when the item is   *)
(* not there.                                                              *)
(***************************************************************************)
EXTENDS Integers, Sequences, FiniteSets, TLC

VARIABLES
    location_schema,  \* the schema handed to create_location / edit_location
    store,            \* the documents of the Locations container
    nextUuid,         \* the next value uuid.uuid4() returns
    last,             \* request and response of the invocation that just ran
    lastDeleted,      \* location_id removed by the previous invocation, or 0
    procs             \* the in-flight invocations of the interleaved runs

vars == <<location_schema, store, nextUuid, last, lastDeleted, procs>>

\* Bounds of the model.
MaxUuid == 5     \* uuid4 values the runs may draw
MaxRooms == 2    \* longest rooms array of a request

Names == {"Hall A", "Hall B"}

----------------------------------------------------------------------------
(* JSON values *)

RoomKeys == {"room_id", "room_name", "capacity"}

MkRoom(ks, rid) ==
    [keys |-> ks,
     room_id |-> IF "room_id" \in ks THEN rid ELSE 0,
     room_name |-> IF "room_name" \in ks THEN "R1" ELSE "",
     capacity |-> IF "capacity" \in ks THEN 50 ELSE 0]

Arr(s) == [t |-> "array", v |-> s]
NotArr == [t |-> "number", v |-> <<>>]

\* A request body: t = "null" is a body that is no JSON object.
MkBody(ks, lid, name, ev, rooms, extra) ==
    [t |-> "object", keys |-> ks,
     location_id |-> IF "location_id" \in ks THEN lid ELSE 0,
     location_name |-> IF "location_name" \in ks THEN name ELSE "",
     events_ids |-> IF "events_ids" \in ks THEN ev ELSE <<>>,
     rooms |-> IF "rooms" \in ks THEN rooms ELSE NotArr,
     extra |-> IF "extra" \in ks THEN extra ELSE ""]

NullBody == [MkBody({}, 0, "", <<>>, NotArr, "") EXCEPT !.t = "null"]
EmptyBody == MkBody({}, 0, "", <<>>, NotArr, "")

MkParams(ks, lid) ==
    [keys |-> ks, location_id |-> IF "location_id" \in ks THEN lid ELSE 0]

MkReq(method, params, body) ==
    [method |-> method, params |-> params, body |-> body]

\* dict.get(key): None (0 here, equally falsy) when the key is absent.
GetId(d) == IF "location_id" \in d.keys THEN d.location_id ELSE 0

----------------------------------------------------------------------------
(* Responses: {"status_code": ..., "body": {...}} *)

MkResp(status, error, named, lid, docs) ==
    [status_code |-> status,
     error |-> error,        \* which error message the body carries
     named |-> named,        \* the field names the message spells out
     location_id |-> lid,    \* body["location_id"] of a 202
     docs |-> docs]          \* the document(s) in the body

Err(status, error) == MkResp(status, error, {}, 0, {})
InternalError == Err(500, "internal")
Pass == Err(0, "")

----------------------------------------------------------------------------
(* The location schema and jsonschema.validate *)

TopKeys == {"location_id", "location_name", "events_ids", "rooms"}

\* The schemas the handlers may be given: the properties are the four
\* top-level fields, and events_ids is required by some and not by others.
Schemas ==
    {[properties |-> TopKeys, required |-> r] :
        r \in {{"location_name", "rooms"}, {"location_name", "events_ids", "rooms"}}}

\* jsonschema.validate(instance, schema) raises no ValidationError: the
\* required properties are present, rooms is an array and each room holds
\* its required fields.
SchemaValid(instance, schema) ==
    /\ schema.required \subseteq instance.keys
    /\ "rooms" \in instance.keys =>
          /\ instance.rooms.t = "array"
          /\ \A i \in 1..Len(instance.rooms.v) :
                {"room_name", "capacity"} \subseteq instance.rooms.v[i].keys

----------------------------------------------------------------------------
(* The store proxy *)

MkDoc(id, lid, name, ev, rooms) ==
    [keys |-> {"id", "location_id", "location_name", "events_ids", "rooms"},
     id |-> id, location_id |-> lid, location_name |-> name,
     events_ids |-> ev, rooms |-> rooms, extra |-> ""]

\* SELECT * FROM c WHERE c.location_name = @loc_name
QueryByName(st, name) ==
    {d \in st : "location_name" \in d.keys /\ d.location_name = name}

\* SELECT * FROM c WHERE c.location_id = @loc_id
QueryById(st, lid) ==
    {d \in st : "location_id" \in d.keys /\ d.location_id = lid}

CreateItem(st, doc) == st \cup {doc}

\* Mutant of DeleteItem: the internal id is passed as the partition key too.
DeleteItemWrongPartition(st, item, partition_key) ==
    {d \in st : ~(d.id = item /\ d.location_id = item)}

\* delete_item(item, partition_key): the partition key is location_id.
DeleteItem(st, item, partition_key) ==
    {d \in st : ~(d.id = item /\ d.location_id = partition_key)}

\* replace_item(item=doc, body=doc) finds the item by doc's id in doc's partition.
CanReplace(st, doc) ==
    \E d \in st : d.id = doc.id /\ d.location_id = doc.location_id

ReplaceItem(st, doc) ==
    {d \in st : ~(d.id = doc.id /\ d.location_id = doc.location_id)} \cup {doc}

----------------------------------------------------------------------------
(* create_location *)

required_fields == {"location_name", "rooms"}

\* The room the loop of lines 50-55 stops at, or 0.
FirstBadRoom(rooms) ==
    LET bad == {i \in 1..Len(rooms) :
                   "room_name" \notin rooms[i].keys \/ "capacity" \notin rooms[i].keys}
    IN IF bad = {} THEN 0 ELSE CHOOSE i \in bad : \A j \in bad : i <= j

\* Lines 39-55: the checks made before the store is read.  Pass when they
\* all succeed.
CreateValidate(body) ==
    IF body.t /= "object"
    THEN InternalError                       \* `f not in body` raises
    ELSE LET missing == {f \in required_fields : f \notin body.keys}
         IN IF missing /= {}
            THEN MkResp(400, "missing_fields", missing, 0, {})
            ELSE IF body.rooms.t /= "array"
            THEN InternalError               \* `for room in body["rooms"]` raises
            ELSE IF FirstBadRoom(body.rooms.v) /= 0
            THEN MkResp(400, "missing_room_field", {"room_name"}, 0, {})
            ELSE Pass

\* Mutant of NewRooms: one uuid is drawn before the loop and given to every room.
NewRoomsOneUuid(rooms, uuid) ==
    [i \in 1..Len(rooms) |->
        [rooms[i] EXCEPT !.keys = @ \cup {"room_id"}, !.room_id = uuid]]

\* Lines 95-97: every room gets the next uuid as its room_id.
NewRooms(rooms, uuid) ==
    [i \in 1..Len(rooms) |->
        [rooms[i] EXCEPT !.keys = @ \cup {"room_id"}, !.room_id = uuid + i - 1]]

\* Lines 92-110: location_id, then the room ids, then the internal id.
NewDoc(body, schema, uuid) ==
    LET rooms == NewRooms(body.rooms.v, uuid + 1)
        new_doc == MkDoc(uuid + 1 + Len(rooms), uuid, body.location_name,
                         body.events_ids, Arr(rooms))
        more == {k \in body.keys : k \notin new_doc.keys /\ k \in schema.properties}
    IN [new_doc EXCEPT !.keys = @ \cup more,
                       !.extra = IF "extra" \in more THEN body.extra ELSE @]

UuidsUsed(body) == 2 + Len(body.rooms.v)

\* Mutant of CreateFinish: the uniqueness query is made again at the write.
CreateFinishRequery(body, existing_docs, schema, st, uuid) ==
    IF existing_docs \cup QueryByName(st, body.location_name) /= {}
    THEN [resp |-> Err(400, "duplicate_name"), store |-> st, uuid |-> uuid]
    ELSE IF ~SchemaValid(body, schema)
    THEN [resp |-> Err(400, "schema"), store |-> st, uuid |-> uuid]
    ELSE IF "events_ids" \notin body.keys
    THEN [resp |-> InternalError, store |-> st, uuid |-> uuid]
    ELSE [resp |-> MkResp(202, "", {}, uuid, {}),
          store |-> CreateItem(st, NewDoc(body, schema, uuid)),
          uuid |-> uuid + UuidsUsed(body)]

\* Lines 72-128, given the result of the uniqueness query: the response,
\* the store afterwards and the next uuid.
CreateFinish(body, existing_docs, schema, st, uuid) ==
    IF existing_docs /= {}
    THEN [resp |-> Err(400, "duplicate_name"), store |-> st, uuid |-> uuid]
    ELSE IF ~SchemaValid(body, schema)
    THEN [resp |-> Err(400, "schema"), store |-> st, uuid |-> uuid]
    ELSE IF "events_ids" \notin body.keys
    THEN [resp |-> InternalError, store |-> st, uuid |-> uuid]   \* KeyError, line 104
    ELSE [resp |-> MkResp(202, "", {}, uuid, {}),
          store |-> CreateItem(st, NewDoc(body, schema, uuid)),
          uuid |-> uuid + UuidsUsed(body)]

\* The whole handler.
create_location(req, st, schema, uuid) ==
    LET v == CreateValidate(req.body)
    IN IF v /= Pass
       THEN [resp |-> v, store |-> st, uuid |-> uuid]
       ELSE CreateFinish(req.body, QueryByName(st, req.body.location_name),
                         schema, st, uuid)

----------------------------------------------------------------------------
(* delete_location *)

Outcome(resp, st, uuid) == [resp |-> resp, store |-> st, uuid |-> uuid]

\* Lines 151-184, for the document docs[0] the query returned first.
DeleteDoc(doc_to_delete, st, uuid) ==
    Outcome(MkResp(200, "", {}, 0, {}),
            DeleteItem(st, doc_to_delete.id, doc_to_delete.location_id), uuid)

\* The whole handler: the outcomes it may have (one per document the query
\* may return first).
delete_location(req, st, uuid) ==
    IF req.method = "POST" /\ req.body.t /= "object"
    THEN {Outcome(InternalError, st, uuid)}             \* body.get raises
    ELSE LET location_id == IF req.method = "POST" THEN GetId(req.body)
                            ELSE GetId(req.params)
             docs == QueryById(st, location_id)
         IN IF location_id = 0
            THEN {Outcome(Err(400, "missing_id"), st, uuid)}
            ELSE IF docs = {}
            THEN {Outcome(Err(404, "not_found"), st, uuid)}
            ELSE {DeleteDoc(d, st, uuid) : d \in docs}

----------------------------------------------------------------------------
(* get_location *)

get_location(req, st, uuid) ==
    LET body == IF req.body.t = "object" THEN req.body ELSE EmptyBody
        location_id == IF req.method = "GET" THEN GetId(req.params) ELSE GetId(body)
        docs == QueryById(st, location_id)
    IN IF location_id /= 0
       THEN IF docs = {}
            THEN {Outcome(Err(404, "not_found"), st, uuid)}
            ELSE {Outcome(MkResp(200, "", {}, 0, {d}), st, uuid) : d \in docs}
       ELSE {Outcome(MkResp(200, "", {}, 0, st), st, uuid)}

----------------------------------------------------------------------------
(* edit_location *)

updatable_keys == {"location_id", "location_name", "events_ids", "rooms"}

\* Mutant of EditValidate: the test for a missing location_id is left out.
EditValidateNoIdCheck(body) ==
    IF body.t /= "object" \/ body.keys = {}
    THEN Err(400, "not_object")
    ELSE Pass

\* Lines 257-270: the checks made before the store is read.
EditValidate(body) ==
    IF body.t /= "object" \/ body.keys = {}
    THEN Err(400, "not_object")
    ELSE IF GetId(body) = 0
    THEN Err(400, "missing_id")
    ELSE Pass

\* Mutant of Merge: every key of the body is copied, not the updatable ones only.
MergeEveryKey(location_doc, body) ==
    [k \in DOMAIN location_doc |->
        IF k = "keys" THEN location_doc.keys \cup body.keys
        ELSE IF k \in body.keys THEN body[k]
        ELSE location_doc[k]]

\* Lines 294-297: location_doc[key] = body[key] for the updatable keys of body.
Merge(location_doc, body) ==
    LET ks == {k \in updatable_keys : k \in body.keys}
    IN [k \in DOMAIN location_doc |->
          IF k = "keys" THEN location_doc.keys \cup ks
          ELSE IF k \in ks THEN body[k]
          ELSE location_doc[k]]

\* Lines 286-323, for the document docs[0] the query returned first.
EditDoc(body, doc, schema, st, uuid) ==
    LET location_doc == Merge(doc, body)
        updated_any_field == \E k \in updatable_keys : k \in body.keys
    IN IF ~updated_any_field
       THEN Outcome(Err(400, "no_updatable"), st, uuid)
       ELSE IF ~SchemaValid(location_doc, schema)
       THEN Outcome(Err(400, "schema"), st, uuid)
       ELSE IF ~CanReplace(st, location_doc)
       THEN Outcome(InternalError, st, uuid)            \* replace_item raises
       ELSE Outcome(MkResp(200, "", {}, 0, {location_doc}),
                    ReplaceItem(st, location_doc), uuid)

\* The whole handler.
edit_location(req, st, schema, uuid) ==
    LET body == req.body
        v == EditValidate(body)
        docs == QueryById(st, GetId(body))
    IN IF v /= Pass
       THEN {Outcome(v, st, uuid)}
       ELSE IF docs = {}
       THEN {Outcome(Err(404, "not_found"), st, uuid)}
       ELSE {EditDoc(body, d, schema, st, uuid) : d \in docs}

----------------------------------------------------------------------------
(* The requests the runs draw *)

FullRoom == MkRoom({"room_name", "capacity"}, 0)
NoCapacity == MkRoom({"room_name"}, 0)
NoRoomName == MkRoom({"capacity"}, 0)

FullRooms(n) == [i \in 1..n |-> FullRoom]

\* rooms of a Create body: no array, or complete rooms followed by at most one
\* incomplete room (the loop of lines 50-55 reads nothing after it).
CreateRoomValues ==
    {NotArr}
    \cup {Arr(FullRooms(n)) : n \in 0..MaxRooms}
    \cup {Arr(Append(FullRooms(n - 1), bad)) :
             n \in 1..MaxRooms, bad \in {NoCapacity, NoRoomName}}

CreateRequests ==
    {MkReq("POST", MkParams({}, 0), NullBody)}
    \cup {MkReq("POST", MkParams({}, 0), MkBody(ks, 0, n, <<>>, r, "")) :
             ks \in SUBSET {"location_name", "events_ids", "rooms"},
             n \in Names, r \in CreateRoomValues}

\* The identifiers a client may send: the empty string, the location_id of a
\* stored document, the one just deleted, or else one no document has.
LookupIds(st, deleted, uuid) ==
    {0, IF deleted /= 0 THEN deleted ELSE uuid} \cup {d.location_id : d \in st}

IdRequests(ids) ==
    {MkReq("POST", MkParams({}, 0), NullBody)}
    \cup {MkReq("GET", MkParams(ks, i), NullBody) : ks \in SUBSET {"location_id"}, i \in ids}
    \cup {MkReq("POST", MkParams({}, 0), MkBody(ks, i, "", <<>>, NotArr, "")) :
             ks \in SUBSET {"location_id"}, i \in ids}

\* rooms of an Edit body: no array, or one or two complete rooms that carry
\* the room_id the client wrote into them.
EditRoomValues ==
    {NotArr}
    \cup {Arr([i \in 1..n |-> MkRoom(RoomKeys, 1)]) : n \in {1, 2}}

EditRequests(ids) ==
    {MkReq("POST", MkParams({}, 0), NullBody)}
    \cup {MkReq("POST", MkParams({}, 0), MkBody(ks, i, n, <<"e1">>, r, "x")) :
             ks \in SUBSET (updatable_keys \cup {"extra"}),
             i \in ids, n \in Names, r \in EditRoomValues}

----------------------------------------------------------------------------
(* One invocation at a time *)

NoReq == MkReq("", MkParams({}, 0), NullBody)
NoLast == [op |-> "none", req |-> NoReq, resp |-> Pass]

NoProc == [pc |-> "idle", op |-> "none", body |-> NullBody, docs |-> {}, resp |-> Pass]

Init ==
    /\ location_schema \in Schemas
    /\ store = {}
    /\ nextUuid = 1
    /\ last = NoLast
    /\ lastDeleted = 0
    /\ procs = [p \in {1, 2} |-> NoProc]

Idle == last.op = "none"

Invoke(op, req, o) ==
    /\ o.uuid <= MaxUuid + 1
    /\ store' = o.store
    /\ nextUuid' = o.uuid
    /\ last' = [op |-> op, req |-> req, resp |-> o.resp]
    /\ UNCHANGED <<location_schema, lastDeleted, procs>>

Create ==
    /\ Idle
    /\ \E req \in CreateRequests :
          Invoke("create", req, create_location(req, store, location_schema, nextUuid))

Delete ==
    /\ Idle
    /\ \E req \in IdRequests(LookupIds(store, lastDeleted, nextUuid)) :
       \E o \in delete_location(req, store, nextUuid) :
          Invoke("delete", req, o)

Get ==
    /\ Idle
    /\ \E req \in IdRequests(LookupIds(store, lastDeleted, nextUuid)) :
       \E o \in get_location(req, store, nextUuid) :
          Invoke("get", req, o)

Edit ==
    /\ Idle
    /\ \E req \in EditRequests(LookupIds(store, lastDeleted, nextUuid)) :
       \E o \in edit_location(req, store, location_schema, nextUuid) :
          Invoke("edit", req, o)

\* The identifier a Delete or Get request carries.
ReqId(req) == IF req.method = "POST" THEN GetId(req.body) ELSE GetId(req.params)

\* The invocation returns its response; its request and response are gone,
\* and what stays is which location_id it deleted, if any.
Return ==
    /\ ~Idle
    /\ last' = NoLast
    /\ lastDeleted' = IF last.op = "delete" /\ last.resp.status_code = 200
                      THEN ReqId(last.req) ELSE 0
    /\ UNCHANGED <<location_schema, store, nextUuid, procs>>

Next == Create \/ Delete \/ Get \/ Edit \/ Return

Spec == Init /\ [][Next]_vars

----------------------------------------------------------------------------
(* Properties of the handlers run one at a time *)

LastBody == last.req.body

\* The rooms of a document or body carry pairwise distinct room_ids.
DistinctRoomIds(rooms) ==
    \A i, j \in 1..Len(rooms) :
        /\ "room_id" \in rooms[i].keys
        /\ i /= j => rooms[i].room_id /= rooms[j].room_id

\* C1: no two stored documents have the same location_name.
C1_LocationNameUnique ==
    \A d1, d2 \in store : d1.location_name = d2.location_name => d1 = d2

\* C2: the rooms of every stored document carry pairwise distinct room_ids.
C2_RoomIdUniqueInLocation ==
    \A d \in store : DistinctRoomIds(d.rooms.v)

\* C3: a Create whose location_name is the name of a stored document returns
\* 400 and leaves the store unchanged, whatever else its body holds.
C3_DuplicateNameIs400 ==
    [][(/\ Idle
        /\ last'.op = "create"
        /\ "location_name" \in last'.req.body.keys
        /\ QueryByName(store, last'.req.body.location_name) /= {})
       => (last'.resp.status_code = 400 /\ store' = store)]_vars

\* C4: an accepted Create adds exactly one document, under a location_id no
\* stored document had, whose rooms carry new, pairwise distinct room_ids, and
\* leaves the stored documents as they were.
C4_AcceptedCreate ==
    [][(Idle /\ last'.op = "create" /\ last'.resp.status_code = 202)
       => LET lid == last'.resp.location_id
              new == {d \in store' : d.location_id = lid}
              old_ids == {d.id : d \in store} \cup {d.location_id : d \in store}
                         \cup UNION {{d.rooms.v[i].room_id : i \in 1..Len(d.rooms.v)} :
                                        d \in store}
          IN /\ Cardinality(new) = 1
             /\ \A d \in store : d.location_id /= lid
             /\ store' \ new = store
             /\ \A d \in new :
                   /\ d.location_name = last'.req.body.location_name
                   /\ Len(d.rooms.v) = Len(last'.req.body.rooms.v)
                   /\ DistinctRoomIds(d.rooms.v)
                   /\ \A i \in 1..Len(d.rooms.v) :
                         d.rooms.v[i].room_id \notin old_ids \cup {0, d.location_id, d.id}]_vars

C4_Witness ==
    /\ last.op = "create"
    /\ last.resp.status_code = 202
    /\ \E d \in store : d.location_id = last.resp.location_id /\ Len(d.rooms.v) >= 2

\* C5: an Edit whose body holds no key of the updatable set returns 400 and
\* leaves the store unchanged.
C5_NoUpdatableKeyIs400 ==
    [][(/\ Idle
        /\ last'.op = "edit"
        /\ last'.req.body.t = "object"
        /\ last'.req.body.keys \cap updatable_keys = {})
       => (last'.resp.status_code = 400 /\ store' = store)]_vars

C5_Witness ==
    /\ last.op = "edit"
    /\ LastBody.keys = {"extra"}
    /\ last.resp.status_code = 400
    /\ store /= {}

\* C6: Delete of a stored location_id returns 200 and removes exactly the
\* document with that location_id; the Delete of the same location_id that
\* follows it returns 404 and changes nothing.
C6_DeleteTwice ==
    [][(Idle /\ last'.op = "delete" /\ ReqId(last'.req) /= 0)
       => LET lid == ReqId(last'.req)
          IN /\ QueryById(store, lid) /= {}
                => /\ last'.resp.status_code = 200
                   /\ store' = {d \in store : d.location_id /= lid}
             /\ lid = lastDeleted
                => /\ last'.resp.status_code = 404
                   /\ store' = store]_vars

C6_Witness ==
    /\ last.op = "delete"
    /\ lastDeleted /= 0
    /\ ReqId(last.req) = lastDeleted
    /\ last.resp.status_code = 404
    /\ store /= {}

\* C7: a Create whose rooms hold an entry without a mandatory room field
\* returns 400 with a message that names the field that is missing, capacity
\* or room_name.
C7_MessageNamesMissingField ==
    (/\ last.op = "create"
     /\ LastBody.t = "object"
     /\ {"location_name", "rooms"} \subseteq LastBody.keys
     /\ LastBody.rooms.t = "array"
     /\ FirstBadRoom(LastBody.rooms.v) /= 0)
    => LET room == LastBody.rooms.v[FirstBadRoom(LastBody.rooms.v)]
       IN /\ last.resp.status_code = 400
          /\ "room_name" \notin room.keys => "room_name" \in last.resp.named
          /\ ("room_name" \in room.keys /\ "capacity" \notin room.keys)
                => "capacity" \in last.resp.named

\* C8: a successful Edit sets location_name, events_ids and rooms to the
\* body's values where the body has the key, and changes nothing else: not
\* the other fields of the document, not the other documents.
C8_EditFrame ==
    [][(Idle /\ last'.op = "edit" /\ last'.resp.status_code = 200)
       => LET body == last'.req.body
          IN \E old \in store : \E new \in store' :
                /\ old.location_id = body.location_id
                /\ store' \ {new} = store \ {old}
                /\ new.id = old.id
                /\ new.location_id = old.location_id
                /\ new.keys = old.keys
                /\ new.extra = old.extra
                /\ \A k \in {"location_name", "events_ids", "rooms"} :
                      new[k] = IF k \in body.keys THEN body[k] ELSE old[k]]_vars

C8_Witness ==
    /\ last.op = "edit"
    /\ last.resp.status_code = 200
    /\ LastBody.keys = {"location_id", "events_ids", "extra"}
    /\ \E d \in store :
          /\ d.location_id = LastBody.location_id
          /\ d.events_ids = <<"e1">>
          /\ "extra" \notin d.keys
    /\ Cardinality(store) >= 2

\* C10: a Create body with location_name and complete rooms, an unused name
\* and a valid schema instance is accepted with 202 and stored, with or
\* without events_ids; and no Create that lacks a top-level field ends in 500.
C10_OnlyNameAndRoomsRequired ==
    (last.op = "create" /\ LastBody.t = "object")
    => /\ (/\ {"location_name", "rooms"} \subseteq LastBody.keys
           /\ LastBody.rooms.t = "array"
           /\ FirstBadRoom(LastBody.rooms.v) = 0
           /\ SchemaValid(LastBody, location_schema)
           /\ last.resp.status_code /= 202
                 => QueryByName(store, LastBody.location_name) = {})
          => /\ last.resp.status_code = 202
             /\ \E d \in store : d.location_id = last.resp.location_id
       /\ {"location_name", "events_ids", "rooms"} \ LastBody.keys /= {}
          => last.resp.status_code /= 500

----------------------------------------------------------------------------
(* Interleaved invocations: the handlers take no lock, so another invocation
   may run between the query of a handler and its write. *)

Procs == {1, 2}

ConcCreateRequests ==
    {MkReq("POST", MkParams({}, 0),
           MkBody({"location_name", "events_ids", "rooms"}, 0, n, <<>>, Arr(<<>>), "")) :
        n \in Names}

\* An Edit that renames a stored location, or one that sets its events_ids.
ConcEditRequests(ids) ==
    {MkReq("POST", MkParams({}, 0),
           MkBody({"location_id"} \cup ks, i, "Hall B", <<"e1">>, NotArr, "")) :
        ks \in {{"location_name"}, {"events_ids"}}, i \in ids}

Proc(pc, op, body, docs, resp) ==
    [pc |-> pc, op |-> op, body |-> body, docs |-> docs, resp |-> resp]

\* create_location up to the uniqueness query (lines 39-71).
BeginCreate ==
    \E p \in Procs : \E req \in ConcCreateRequests :
        /\ procs[p].pc = "idle"
        /\ LET v == CreateValidate(req.body)
           IN procs' = [procs EXCEPT ![p] =
                 IF v /= Pass
                 THEN Proc("done", "create", req.body, {}, v)
                 ELSE Proc("queried", "create", req.body,
                           QueryByName(store, req.body.location_name), Pass)]
        /\ UNCHANGED <<location_schema, store, nextUuid, last, lastDeleted>>

\* create_location from the test of the query's result on (lines 72-128).
FinishCreate ==
    \E p \in Procs :
        /\ procs[p].pc = "queried"
        /\ procs[p].op = "create"
        /\ LET o == CreateFinish(procs[p].body, procs[p].docs, location_schema,
                                 store, nextUuid)
           IN /\ o.uuid <= MaxUuid + 1
              /\ store' = o.store
              /\ nextUuid' = o.uuid
              /\ procs' = [procs EXCEPT ![p].pc = "done", ![p].resp = o.resp]
        /\ UNCHANGED <<location_schema, last, lastDeleted>>

\* edit_location up to the existence query (lines 257-286).
BeginEdit ==
    \E p \in Procs : \E req \in ConcEditRequests({d.location_id : d \in store}) :
        /\ procs[p].pc = "idle"
        /\ LET v == EditValidate(req.body)
               docs == QueryById(store, GetId(req.body))
           IN IF v /= Pass
              THEN procs' = [procs EXCEPT ![p] = Proc("done", "edit", req.body, {}, v)]
              ELSE IF docs = {}
              THEN procs' = [procs EXCEPT ![p] =
                                Proc("done", "edit", req.body, {}, Err(404, "not_found"))]
              ELSE \E d \in docs :
                      procs' = [procs EXCEPT ![p] =
                                   Proc("queried", "edit", req.body, {d}, Pass)]
        /\ UNCHANGED <<location_schema, store, nextUuid, last, lastDeleted>>

\* edit_location from the merge on (lines 286-323), on the document read earlier.
FinishEdit ==
    \E p \in Procs : \E d \in procs[p].docs :
        /\ procs[p].pc = "queried"
        /\ procs[p].op = "edit"
        /\ LET o == EditDoc(procs[p].body, d, location_schema, store, nextUuid)
           IN /\ store' = o.store
              /\ procs' = [procs EXCEPT ![p].pc = "done", ![p].resp = o.resp]
        /\ UNCHANGED <<location_schema, nextUuid, last, lastDeleted>>

ProcReturn ==
    \E p \in Procs :
        /\ procs[p].pc = "done"
        /\ procs' = [procs EXCEPT ![p] = NoProc]
        /\ UNCHANGED <<location_schema, store, nextUuid, last, lastDeleted>>

NextConc == BeginCreate \/ FinishCreate \/ BeginEdit \/ FinishEdit \/ ProcReturn

SpecConc == Init /\ [][NextConc]_vars

Returned(p, op, status) ==
    /\ procs[p].pc = "done"
    /\ procs[p].op = op
    /\ procs[p].resp.status_code = status

\* C9: the write of an invocation does not look at what the store holds by
\* then.  A Create whose query found no document of its name is accepted and
\* adds its document, and an Edit that returns 200 replaces the stored
\* document by the merge of its body into the document it read earlier; so
\* two interleaved Creates of one name are both accepted and both stored,
\* and of two interleaved Edits the later replace alone is in the store.
C9_UnsynchronisedWrites ==
    [][\A p \in Procs :
          (procs[p].pc = "queried" /\ procs'[p].pc = "done")
          => LET body == procs[p].body
                 resp == procs'[p].resp
             IN /\ (/\ procs[p].op = "create"
                    /\ procs[p].docs = {}
                    /\ SchemaValid(body, location_schema)
                    /\ "events_ids" \in body.keys)
                   => /\ resp.status_code = 202
                      /\ \E d \in store' :
                            /\ d \notin store
                            /\ d.location_id = resp.location_id
                            /\ d.location_name = body.location_name
                            /\ store' = store \cup {d}
                /\ (procs[p].op = "edit" /\ resp.status_code = 200)
                   => \E d \in procs[p].docs :
                         QueryById(store', body.location_id) = {Merge(d, body)}]_vars

\* Both Creates of one name were accepted and both documents are stored.
C9_Witness ==
    /\ Returned(1, "create", 202)
    /\ Returned(2, "create", 202)
    /\ procs[1].body.location_name = procs[2].body.location_name
    /\ Cardinality(QueryByName(store, procs[1].body.location_name)) = 2

\* Both Edits of one document returned 200 and the name the first one wrote
\* is not in the stored document.
LostUpdate ==
    /\ Returned(1, "edit", 200)
    /\ Returned(2, "edit", 200)
    /\ procs[1].body.location_id = procs[2].body.location_id
    /\ "location_name" \in procs[1].body.keys
    /\ "events_ids" \in procs[2].body.keys
    /\ \E d \in QueryById(store, procs[1].body.location_id) :
          /\ d.location_name /= procs[1].body.location_name
          /\ d.events_ids = procs[2].body.events_ids

====
